---- MODULE Spec2Model ----
(***************************************************************************)
(* Model of the agent activity panels:                                     *)
(*   - AgentEventsPanel: bounded buffer of received agent events, its      *)
(*     repository / event-type filters and the expansion set;              *)
(*   - AgentSessionsPanel: status filter and the grouping of the session   *)
(*     snapshot by normalized directory.                                   *)
(*   - AgentSessionCard: the current-task item and the Resume request;     *)
(*   - the session palette, the slice's loading flag and error, the        *)
(*     refresh request and the panel events of the declared tools.         *)
(*                                                                         *)
(* Strings that the code inspects character by character (paths) are       *)
(* sequences of one-character strings.  A missing or null string is the    *)
(* empty sequence: every place of the code that reads such a value tests   *)
(* it for truthiness (`||`, `!x`, `a && b`), which treats null, undefined  *)
(* and '' alike.                                                           *)
(***************************************************************************)
EXTENDS Integers, Sequences, FiniteSets, TLC

\* ---------------------------------------------------------------- bounds
\* Host deliveries of 'agent-event:received' in the interactive specification.
MaxDeliveries == 3
\* Host deliveries in the streaming specification (enough to overflow the buffer).
MaxStream == 640
\* In the streaming specification the user acts only during the first
\* deliveries; afterwards the host streams undisturbed.
UserWindow == 2
\* Sessions in the host's snapshot.
MaxSessions == 2
MaxColorIndex == 120
MaxTodos == 4
MaxRefreshes == 2
MaxEmitted == 3
MaxToolEvents == 2
MaxNotifications == 1

\* ------------------------------------------------------ program constants
MAX_EVENTS == 500

\* ------------------------------------------------------------ input pools
PathA == <<"/", "a">>
PathB == <<"/", "b">>
NoPath == <<>>

EventTypes == {"pre-tool-use", "stop"}

\* RepoNormalizedUniversalAgentSessionEvent, reduced to the fields the panel's
\* logic reads: eventType, repository?.root, workingDirectory.
AgentEvents ==
    { [eventType |-> t, root |-> r[1], workingDirectory |-> r[2]] :
        t \in EventTypes, r \in {<<PathA, PathB>>, <<NoPath, PathB>>} }

\* A panel event as delivered by the host bus; payload is <<>> when the
\* payload (or its event) is missing, <<e>> otherwise.
PanelEvents == {[payload |-> <<>>]} \cup {[payload |-> <<e>>] : e \in AgentEvents}

\* context.currentScope.repository?.path ?? null
ScopePaths == {NoPath, PathA, PathB}

\* The same, for the sessions panel: with a trailing separator to normalize.
SessionsScopePaths == {NoPath, <<"/", "a", "/">>, PathB}

\* session.directory and session.workingDirectory of a session record.
DirectoryPairs ==
    { <<PathA, PathB>>,
      <<(<<"/", "a", "/">>), (<<"/", "a", "/">>)>>,
      <<(<<"\\", "a">>), NoPath>>,
      <<NoPath, PathB>>,
      <<NoPath, NoPath>>,
      <<(<<"/", "B">>), (<<"/", "B">>)>> }

SessionStatuses == {"active", "idle"}
Activities == {1, 2}
CustomNames == {<<>>}
\* latestEvent is <<>> when absent, <<[toolName, fileName]>> otherwise.
LatestEvents == {<<>>}

\* The options of the status <select>.
StatusFilters == {"all", "active", "idle", "inactive"}

Digits == <<"1", "2", "3", "4", "5", "6", "7", "8", "9">>

\* SessionWithEvents records the host can put at position i of the snapshot;
\* session ids are unique within a snapshot.
SessionsAt(i) ==
    { [session |-> [sessionId |-> <<"s", Digits[i]>>,
                    directory |-> d[1],
                    workingDirectory |-> d[2],
                    lastActivity |-> a,
                    customName |-> c,
                    status |-> st],
       latestEvent |-> le] :
        d \in DirectoryPairs, a \in Activities, c \in CustomNames,
        st \in SessionStatuses, le \in LatestEvents }

\* ------------------------------------------------------------------ state
VARIABLES
    events,             \* useState<EventEntry[]>
    expandedEvents,     \* useState<Set<number>>
    filterByRepo,       \* useState(true)
    selectedEventTypes, \* useState<Set<string>>
    autoScroll,         \* useState(true)
    eventCounterRef,    \* useRef(0)
    repositoryPath,     \* context.currentScope.repository?.path ?? null
    now,                \* Date.now(): a clock that ticks at every host delivery
    appendedLog,        \* history: what was appended since the last clear, in order
    \* AgentSessionsPanel
    sessions,           \* sessionsSlice?.data?.sessions ?? []
    statusFilter,       \* React.useState<string>('all')
    searchQuery,        \* React.useState('')
    sliceLoading,       \* sessionsSlice?.loading ?? false
    sliceError,         \* AgentSessionsSlice.error, "" when absent
    refreshPending,     \* context.refresh(...) calls that have not settled yet
    \* AgentSessionCard, one per position of the snapshot
    isTerminalLoading,  \* useState(false)
    resumeCall,         \* where handleResume stands: "none", "awaiting", "timer"
    lastTodos,          \* cardData.lastTodos of the card under study
    \* host and library
    emitted,            \* events.emit(...) calls of the panels, in order
    dispatched,         \* history: tool events the host dispatched to the panels
    colorIndex,         \* argument of the latest getSessionColor call
    sessionColor,       \* its result
    mounted,            \* the events panel is mounted
    subscribers,        \* handlers the events panel has on 'agent-event:received'
    lastAction          \* history: the latest user action on the sessions list

eventsVars ==
    <<events, expandedEvents, filterByRepo, selectedEventTypes, autoScroll,
      eventCounterRef, repositoryPath, now, appendedLog>>

sessionsVars == <<sessions, statusFilter, searchQuery>>

hostVars == <<sliceLoading, sliceError, refreshPending, dispatched>>

cardVars == <<isTerminalLoading, resumeCall, lastTodos>>

colorVars == <<colorIndex, sessionColor>>

busVars == <<mounted, subscribers>>

restVars == <<hostVars, cardVars, colorVars, busVars, lastAction>>

vars == <<eventsVars, sessionsVars, emitted, restVars>>

\* ------------------------------------------------------ AgentEventsPanel
\* Mutants of sliceLast: no trimming; keeping the oldest entries.
sliceLast_noTrim(updated) == updated

sliceLast_keepOldest(updated) ==
    IF Len(updated) > MAX_EVENTS THEN SubSeq(updated, 1, MAX_EVENTS) ELSE updated

\* updated.length > MAX_EVENTS ? updated.slice(-MAX_EVENTS) : updated
sliceLast(updated) ==
    IF Len(updated) > MAX_EVENTS
    THEN SubSeq(updated, Len(updated) - MAX_EVENTS + 1, Len(updated))
    ELSE updated

\* Mutant of appendEntry: the new entry is put in front.
appendEntry_prepend(prev, agentEvent, time, counter) ==
    LET newEntry == [event |-> agentEvent, timestamp |-> time, localIndex |-> counter]
        updated == <<newEntry>> \o prev
    IN sliceLast(updated)

\* The setEvents updater: build the entry, append, trim.
appendEntry(prev, agentEvent, time, counter) ==
    LET newEntry == [event |-> agentEvent, timestamp |-> time, localIndex |-> counter]
        updated == Append(prev, newEntry)
    IN sliceLast(updated)

\* agentEvent.repository?.root || agentEvent.workingDirectory
eventRepoPath(agentEvent) ==
    IF agentEvent.root # NoPath THEN agentEvent.root ELSE agentEvent.workingDirectory

\* Mutant of droppedByRepo: the test also runs when no repository is scoped.
droppedByRepo_whenUnscoped(agentEvent) ==
    /\ filterByRepo
    /\ eventRepoPath(agentEvent) # repositoryPath

\* Mutant of droppedByRepo: the working directory is compared, never the root.
droppedByRepo_ignoreRoot(agentEvent) ==
    /\ filterByRepo
    /\ repositoryPath # NoPath
    /\ agentEvent.workingDirectory # repositoryPath

\* The repository test of the handler: TRUE when the event is to be dropped.
droppedByRepo(agentEvent) ==
    /\ filterByRepo
    /\ repositoryPath # NoPath
    /\ eventRepoPath(agentEvent) # repositoryPath

\* Variant of agentEventReceived in which an event dropped by the repo filter
\* still takes a sequence number.
agentEventReceived_countsDropped(panelEvent) ==
    /\ now' = now + 1
    /\ IF panelEvent.payload = <<>>
       THEN UNCHANGED <<events, eventCounterRef, appendedLog>>
       ELSE LET agentEvent == panelEvent.payload[1] IN
            IF droppedByRepo(agentEvent)
            THEN /\ eventCounterRef' = eventCounterRef + 1
                 /\ UNCHANGED <<events, appendedLog>>
            ELSE /\ events' = appendEntry(events, agentEvent, now, eventCounterRef)
                 /\ eventCounterRef' = eventCounterRef + 1
                 /\ appendedLog' = Append(appendedLog, [event |-> agentEvent, at |-> now])
    /\ UNCHANGED <<expandedEvents, filterByRepo, selectedEventTypes, autoScroll,
                   repositoryPath, emitted>>

\* Mutant of agentEventReceived: a panel event without payload still takes a
\* sequence number.
agentEventReceived_countsEmpty(panelEvent) ==
    /\ now' = now + 1
    /\ IF panelEvent.payload = <<>>
       THEN /\ eventCounterRef' = eventCounterRef + 1
            /\ UNCHANGED <<events, appendedLog>>
       ELSE LET agentEvent == panelEvent.payload[1] IN
            IF droppedByRepo(agentEvent)
            THEN UNCHANGED <<events, eventCounterRef, appendedLog>>
            ELSE /\ events' = appendEntry(events, agentEvent, now, eventCounterRef)
                 /\ eventCounterRef' = eventCounterRef + 1
                 /\ appendedLog' = Append(appendedLog, [event |-> agentEvent, at |-> now])
    /\ UNCHANGED <<expandedEvents, filterByRepo, selectedEventTypes, autoScroll,
                   repositoryPath, emitted>>

\* Handler of 'agent-event:received'.
agentEventReceived(panelEvent) ==
    /\ now' = now + 1
    /\ IF panelEvent.payload = <<>>
       THEN UNCHANGED <<events, eventCounterRef, appendedLog>>
       ELSE LET agentEvent == panelEvent.payload[1] IN
            IF droppedByRepo(agentEvent)
            THEN UNCHANGED <<events, eventCounterRef, appendedLog>>
            ELSE /\ events' = appendEntry(events, agentEvent, now, eventCounterRef)
                 /\ eventCounterRef' = eventCounterRef + 1
                 /\ appendedLog' = Append(appendedLog, [event |-> agentEvent, at |-> now])
    /\ UNCHANGED <<expandedEvents, filterByRepo, selectedEventTypes, autoScroll,
                   repositoryPath, emitted>>

\* Mutant of filteredEvents: an empty selection is not treated as "show all".
filteredEvents_noShowAll ==
    SelectSeq(events, LAMBDA entry : entry.event.eventType \in selectedEventTypes)

\* filteredEvents (useMemo)
filteredEvents ==
    IF Cardinality(selectedEventTypes) = 0
    THEN events
    ELSE SelectSeq(events, LAMBDA entry : entry.event.eventType \in selectedEventTypes)

\* availableEventTypes (useMemo): the types that have a filter button.
availableEventTypes == {events[i].event.eventType : i \in 1..Len(events)}

\* Mutant of toggleMember: the member is added, never removed.
toggleMember_addOnly(prev, x) == prev \cup {x}

\* The Set update shared by toggleExpanded and toggleEventTypeFilter.
toggleMember(prev, x) ==
    IF x \in prev THEN prev \ {x} ELSE prev \cup {x}

toggleExpanded(index) ==
    /\ expandedEvents' = toggleMember(expandedEvents, index)
    /\ UNCHANGED <<events, filterByRepo, selectedEventTypes, autoScroll,
                   eventCounterRef, repositoryPath, now, appendedLog, emitted>>

\* Variant of clearEvents that leaves the expansion set as it was.
clearEvents_keepExpanded ==
    /\ Len(events) # 0
    /\ events' = <<>>
    /\ appendedLog' = <<>>
    /\ UNCHANGED <<expandedEvents, filterByRepo, selectedEventTypes, autoScroll,
                   eventCounterRef, repositoryPath, now, emitted>>

\* Mutant of clearEvents: the host is told about the clearing.
clearEvents_notifying ==
    /\ Len(events) # 0
    /\ events' = <<>>
    /\ expandedEvents' = {}
    /\ appendedLog' = <<>>
    /\ emitted' = Append(emitted, [type |-> "agent-events:clear",
                                   source |-> "agent-events-panel",
                                   payload |-> <<>>])
    /\ UNCHANGED <<filterByRepo, selectedEventTypes, autoScroll, eventCounterRef,
                   repositoryPath, now>>

\* Mutant of clearEvents: the sequence counter is reset with the buffer.
clearEvents_resetCounter ==
    /\ Len(events) # 0
    /\ events' = <<>>
    /\ expandedEvents' = {}
    /\ appendedLog' = <<>>
    /\ eventCounterRef' = 0
    /\ UNCHANGED <<filterByRepo, selectedEventTypes, autoScroll, repositoryPath, now, emitted>>

clearEvents ==
    /\ Len(events) # 0          \* the button is disabled on an empty buffer
    /\ events' = <<>>
    /\ expandedEvents' = {}
    /\ appendedLog' = <<>>
    /\ UNCHANGED <<filterByRepo, selectedEventTypes, autoScroll, eventCounterRef,
                   repositoryPath, now, emitted>>

toggleEventTypeFilter(eventType) ==
    /\ selectedEventTypes' = toggleMember(selectedEventTypes, eventType)
    /\ UNCHANGED <<events, expandedEvents, filterByRepo, autoScroll, eventCounterRef,
                   repositoryPath, now, appendedLog, emitted>>

\* Mutant of toggleFilterByRepo: the toggle also resets the type selection.
toggleFilterByRepo_resetSelection ==
    /\ filterByRepo' = ~filterByRepo
    /\ selectedEventTypes' = {}
    /\ UNCHANGED <<events, expandedEvents, autoScroll,
                   eventCounterRef, repositoryPath, now, appendedLog, emitted>>

\* onClick={() => setFilterByRepo(!filterByRepo)}
toggleFilterByRepo ==
    /\ filterByRepo' = ~filterByRepo
    /\ UNCHANGED <<events, expandedEvents, selectedEventTypes, autoScroll,
                   eventCounterRef, repositoryPath, now, appendedLog, emitted>>

\* onClick={() => setAutoScroll(!autoScroll)}
toggleAutoScroll ==
    /\ autoScroll' = ~autoScroll
    /\ UNCHANGED <<events, expandedEvents, filterByRepo, selectedEventTypes,
                   eventCounterRef, repositoryPath, now, appendedLog, emitted>>

\* The host changes the scoped repository (a new context prop).
scopeChanged(path) ==
    /\ path # repositoryPath
    /\ repositoryPath' = path
    /\ UNCHANGED <<events, expandedEvents, filterByRepo, selectedEventTypes, autoScroll,
                   eventCounterRef, now, appendedLog, emitted>>

\* Mutant of resubscribed: the effect runs again without the cleanup.
resubscribed_noCleanup == subscribers' = subscribers + 1

\* A dependency of the subscription effect changed: React runs the cleanup
\* of the previous run (unsubscribe) and then the effect (panelEvents.on).
resubscribed == subscribers' = (subscribers - 1) + 1

\* The handler of 'agent-event:received' run n times on one panel event that
\* it accepts, for a buffer state st = [events, counter, log].
RECURSIVE handlerRuns(_, _, _, _)
handlerRuns(n, st, agentEvent, t) ==
    IF n = 0 THEN st
    ELSE handlerRuns(n - 1,
                     [events |-> appendEntry(st.events, agentEvent, t, st.counter),
                      counter |-> st.counter + 1,
                      log |-> Append(st.log, [event |-> agentEvent, at |-> t])],
                     agentEvent, t)

\* The bus delivers a panel event of type 'agent-event:received': every
\* subscribed handler runs on it.
busDelivered(panelEvent) ==
    /\ now' = now + 1
    /\ IF panelEvent.payload = <<>>
       THEN UNCHANGED <<events, eventCounterRef, appendedLog>>
       ELSE IF droppedByRepo(panelEvent.payload[1])
            THEN UNCHANGED <<events, eventCounterRef, appendedLog>>
            ELSE LET st == handlerRuns(subscribers,
                                       [events |-> events, counter |-> eventCounterRef,
                                        log |-> appendedLog],
                                       panelEvent.payload[1], now) IN
                 /\ events' = st.events
                 /\ eventCounterRef' = st.counter
                 /\ appendedLog' = st.log
    /\ UNCHANGED <<expandedEvents, filterByRepo, selectedEventTypes, autoScroll,
                   repositoryPath, emitted, mounted, subscribers>>

\* The panel is unmounted: the cleanup of the subscription effect runs.
panelUnmounted ==
    /\ mounted
    /\ mounted' = FALSE
    /\ subscribers' = subscribers - 1
    /\ UNCHANGED <<eventsVars, emitted>>

\* ---------------------------------------------------- AgentSessionsPanel
UNKNOWN_DIRECTORY_LABEL ==
    <<"U", "n", "k", "n", "o", "w", "n", " ", "D", "i", "r", "e", "c", "t", "o", "r", "y">>

LowerCase == <<"a", "b", "c", "d", "e", "f", "g", "h", "i", "j", "k", "l", "m",
               "n", "o", "p", "q", "r", "s", "t", "u", "v", "w", "x", "y", "z">>
UpperCase == <<"A", "B", "C", "D", "E", "F", "G", "H", "I", "J", "K", "L", "M",
               "N", "O", "P", "Q", "R", "S", "T", "U", "V", "W", "X", "Y", "Z">>

\* The lower-case letter of each upper-case letter.
lowerOf == [c \in {UpperCase[i] : i \in 1..Len(UpperCase)} |->
               LowerCase[CHOOSE i \in 1..Len(UpperCase) : UpperCase[i] = c]]

IsUpper(c) == c \in DOMAIN lowerOf

\* String.prototype.toLowerCase, per character and for a string.
toLowerChar(c) == IF IsUpper(c) THEN lowerOf[c] ELSE c

toLowerCase(str) == [i \in 1..Len(str) |-> toLowerChar(str[i])]

\* str.replace(/\\/g, '/')
unifySeparators(str) == [i \in 1..Len(str) |-> IF str[i] = "\\" THEN "/" ELSE str[i]]

\* str.replace(/\/+$/, '')
RECURSIVE trimTrailingSlashes(_)
trimTrailingSlashes(str) ==
    IF Len(str) > 0 /\ str[Len(str)] = "/"
    THEN trimTrailingSlashes(SubSeq(str, 1, Len(str) - 1))
    ELSE str

\* a || b, for strings
orElse(a, b) == IF a # <<>> THEN a ELSE b

\* path.replace(/\\/g, '/').replace(/\/+$/, '') || path
normalizePath(path) == orElse(trimTrailingSlashes(unifySeparators(path)), path)

\* normalizedRepositoryPath (useMemo); <<>> stands for null.
normalizedRepositoryPath ==
    IF repositoryPath = <<>> THEN <<>> ELSE normalizePath(repositoryPath)

\* haystack.includes(needle)
includes(haystack, needle) ==
    \E k \in 0..(Len(haystack) - Len(needle)) :
        SubSeq(haystack, k + 1, k + Len(needle)) = needle

\* Mutant of joinTruthy: the parts are joined without a separator.
RECURSIVE joinTruthy_noSeparator(_)
joinTruthy_noSeparator(parts) ==
    IF parts = <<>> THEN <<>>
    ELSE Head(parts) \o joinTruthy_noSeparator(Tail(parts))

\* parts.filter(Boolean).join(' ')
RECURSIVE joinTruthy(_)
joinTruthy(parts) ==
    IF parts = <<>> THEN <<>>
    ELSE LET rest == joinTruthy(Tail(parts)) IN
         IF Head(parts) = <<>> THEN rest
         ELSE IF rest = <<>> THEN Head(parts)
         ELSE Head(parts) \o <<" ">> \o rest

\* The searchable text of a session (search branch of filteredSessions).
searchableText(s) ==
    toLowerCase(joinTruthy(<<
        s.session.customName,
        s.session.sessionId,
        s.session.workingDirectory,
        IF s.latestEvent = <<>> THEN <<>> ELSE s.latestEvent[1].toolName,
        IF s.latestEvent = <<>> THEN <<>> ELSE s.latestEvent[1].fileName >>))

\* Mutant of filterSessions: the status filter is not applied.
filterSessions_ignoreStatus(list, status, query) ==
    IF query # <<>>
    THEN SelectSeq(list, LAMBDA s : includes(searchableText(s), toLowerCase(query)))
    ELSE list

\* filteredSessions, as a function of its inputs.
filterSessions(list, status, query) ==
    LET byStatus ==
            IF status # "all"
            THEN SelectSeq(list, LAMBDA s : s.session.status = status)
            ELSE list
    IN IF query # <<>>
       THEN SelectSeq(byStatus, LAMBDA s : includes(searchableText(s), toLowerCase(query)))
       ELSE byStatus

\* filteredSessions (useMemo)
filteredSessions == filterSessions(sessions, statusFilter, searchQuery)

\* session.directory || session.workingDirectory || UNKNOWN_DIRECTORY_LABEL
rawDirectory(s) ==
    orElse(s.session.directory, orElse(s.session.workingDirectory, UNKNOWN_DIRECTORY_LABEL))

\* Mutant of normalizedKey: the raw directory is the key.
normalizedKey_raw(raw) == raw

normalizedKey(raw) ==
    IF raw = UNKNOWN_DIRECTORY_LABEL THEN UNKNOWN_DIRECTORY_LABEL ELSE normalizePath(raw)

\* Position of the group with the given key in the Map (insertion order), 0 if none.
groupIndex(groups, key) ==
    IF \E i \in 1..Len(groups) : groups[i].normalizedDirectory = key
    THEN CHOOSE i \in 1..Len(groups) : groups[i].normalizedDirectory = key
    ELSE 0

\* let group = groups.get(normalizedKey); if (!group) { group = {...};
\* groups.set(normalizedKey, group) }
findOrCreate(groups, raw, key) ==
    IF groupIndex(groups, key) = 0
    THEN Append(groups, [directory |-> raw, normalizedDirectory |-> key, sessions |-> <<>>,
                         lastActivity |-> 0, isCurrentDirectory |-> FALSE])
    ELSE groups

\* Mutant of pushSession: the group takes the activity of the session pushed last.
pushSession_lastWins(groups, pos, s) ==
    [groups EXCEPT ![pos] =
        [@ EXCEPT !.sessions = Append(@, s),
                  !.lastActivity = s.session.lastActivity]]

\* Mutant of pushSession: the session replaces the members of its group.
pushSession_replace(groups, pos, s) ==
    [groups EXCEPT ![pos] =
        [@ EXCEPT !.sessions = <<s>>,
                  !.lastActivity = IF s.session.lastActivity > @
                                   THEN s.session.lastActivity ELSE @]]

\* group.sessions.push(sessionWithEvents) and the update of group.lastActivity,
\* for the group at position pos.
pushSession(groups, pos, s) ==
    [groups EXCEPT ![pos] =
        [@ EXCEPT !.sessions = Append(@, s),
                  !.lastActivity = IF s.session.lastActivity > @
                                   THEN s.session.lastActivity ELSE @]]

pushToGroup(groups, key, s) == pushSession(groups, groupIndex(groups, key), s)

\* One iteration of filteredSessions.forEach: find or create the group of
\* the session's key, push the session, raise the group's lastActivity.
addToGroups(groups, s) ==
    pushToGroup(findOrCreate(groups, rawDirectory(s), normalizedKey(rawDirectory(s))),
                normalizedKey(rawDirectory(s)), s)

\* filteredSessions.forEach(...) over the whole list.
RECURSIVE groupAll(_, _)
groupAll(groups, list) ==
    IF list = <<>> THEN groups ELSE groupAll(addToGroups(groups, Head(list)), Tail(list))

\* Collation key of a character for localeCompare: blank, then punctuation,
\* then letters without regard to case (root collation order of the
\* characters that occur in the model's paths).
primaryOrder == <<" ", "/", "\\">> \o LowerCase

rankOf == [c \in {primaryOrder[i] : i \in 1..Len(primaryOrder)} |->
              CHOOSE i \in 1..Len(primaryOrder) : primaryOrder[i] = c]

primaryRank(c) == rankOf[toLowerChar(c)]

\* Lexicographic comparison of two integer sequences: -1, 0 or 1.
RECURSIVE compareRanks(_, _)
compareRanks(x, y) ==
    IF x = <<>> /\ y = <<>> THEN 0
    ELSE IF x = <<>> THEN -1
    ELSE IF y = <<>> THEN 1
    ELSE IF Head(x) < Head(y) THEN -1
    ELSE IF Head(x) > Head(y) THEN 1
    ELSE compareRanks(Tail(x), Tail(y))

\* a.localeCompare(b): letters and punctuation first, case (lower before
\* upper) only to break ties.
caseTieBreak(primary, a, b) ==
    IF primary # 0 THEN primary
    ELSE compareRanks([i \in 1..Len(a) |-> IF IsUpper(a[i]) THEN 1 ELSE 0],
                      [i \in 1..Len(b) |-> IF IsUpper(b[i]) THEN 1 ELSE 0])

localeCompare(a, b) ==
    caseTieBreak(compareRanks([i \in 1..Len(a) |-> primaryRank(a[i])],
                              [i \in 1..Len(b) |-> primaryRank(b[i])]), a, b)

\* Mutant of compareGroups: the current directory gets no precedence.
compareGroups_byNameOnly(a, b) == localeCompare(a.directory, b.directory)

\* The comparator of sortedGroups.sort.
compareGroups(a, b) ==
    IF a.isCurrentDirectory /\ ~b.isCurrentDirectory THEN -1
    ELSE IF b.isCurrentDirectory /\ ~a.isCurrentDirectory THEN 1
    ELSE localeCompare(a.directory, b.directory)

\* Array.prototype.sort (stable), as an insertion sort with the comparator.
RECURSIVE insertGroup(_, _)
insertGroup(sorted, g) ==
    IF sorted = <<>> THEN <<g>>
    ELSE IF compareGroups(g, sorted[Len(sorted)]) < 0
         THEN Append(insertGroup(SubSeq(sorted, 1, Len(sorted) - 1), g), sorted[Len(sorted)])
         ELSE Append(sorted, g)

RECURSIVE sortGroups(_)
sortGroups(groups) ==
    IF groups = <<>> THEN <<>>
    ELSE insertGroup(sortGroups(SubSeq(groups, 1, Len(groups) - 1)), groups[Len(groups)])

\* The map over groups.values() that sets isCurrentDirectory.
flagCurrent(groups, repoPath) ==
    [i \in 1..Len(groups) |->
        [groups[i] EXCEPT !.isCurrentDirectory =
            repoPath # <<>> /\ groups[i].normalizedDirectory = repoPath]]

\* sessionsByDirectory, as a function of its inputs.
groupByDirectory(filtered, repoPath) ==
    sortGroups(flagCurrent(groupAll(<<>>, filtered), repoPath))

\* sessionsByDirectory (useMemo)
sessionsByDirectory == groupByDirectory(filteredSessions, normalizedRepositoryPath)

\* Variant of setStatusFilter that also types the chosen status into the
\* search box.
setStatusFilter_alsoSearches(value) ==
    /\ value # statusFilter
    /\ statusFilter' = value
    /\ searchQuery' = <<"i", "d">>
    /\ UNCHANGED <<sessions, emitted>>

\* onChange={(e) => setStatusFilter(e.target.value)}
setStatusFilter(value) ==
    /\ value # statusFilter
    /\ statusFilter' = value
    /\ UNCHANGED <<sessions, searchQuery, emitted>>

\* The host replaces the snapshot by one with a further session.
sessionAdded(s) ==
    /\ sessions' = Append(sessions, s)
    /\ UNCHANGED <<statusFilter, searchQuery, emitted>>

\* The host replaces the snapshot by one without the newest session.
sessionRemoved ==
    /\ sessions # <<>>
    /\ sessions' = SubSeq(sessions, 1, Len(sessions) - 1)
    /\ UNCHANGED <<statusFilter, searchQuery, emitted>>

SessionsInit ==
    /\ sessions = <<>>
    /\ statusFilter = "all"
    /\ searchQuery = <<>>

\* ------------------------------------------------------- session colours
SESSION_COLORS ==
    << "#3b82f6", "#10b981", "#8b5cf6", "#f59e0b",
       "#ef4444", "#06b6d4", "#ec4899", "#14b8a6" >>

\* Mutant of getSessionColor: indices past the palette take its last entry.
getSessionColor_clamped(index) ==
    SESSION_COLORS[IF index < Len(SESSION_COLORS) THEN index + 1 ELSE Len(SESSION_COLORS)]

\* SESSION_COLORS[index % SESSION_COLORS.length], for index >= 0 (sequences
\* are indexed from 1).
getSessionColor(index) == SESSION_COLORS[(index % Len(SESSION_COLORS)) + 1]

\* map.set(sessionId, getSessionColor(index)) for the next index of forEach.
colorRequested ==
    /\ colorIndex' = colorIndex + 1
    /\ sessionColor' = getSessionColor(colorIndex + 1)
    /\ UNCHANGED emitted

\* ------------------------------------------------------ AgentSessionCard
\* TodoItem.status, and one value outside the declared union.
TodoStatuses == {"pending", "in_progress", "completed", "cancelled"}

\* Todo items the host can put at position i of a session's list.
TodosAt(i) == { [content |-> <<"t", Digits[i]>>, status |-> st] : st \in TodoStatuses }

withStatus(todos, status) == SelectSeq(todos, LAMBDA t : t.status = status)

\* Mutant of getTodoToShow: the first completed item is the fallback.
getTodoToShow_firstCompleted(todos) ==
    IF Len(todos) = 0 THEN <<>>
    ELSE IF withStatus(todos, "in_progress") # <<>>
         THEN <<withStatus(todos, "in_progress")[1]>>
    ELSE IF withStatus(todos, "pending") # <<>>
         THEN <<withStatus(todos, "pending")[1]>>
    ELSE IF withStatus(todos, "completed") # <<>>
         THEN <<withStatus(todos, "completed")[1]>>
    ELSE <<>>

\* getTodoToShow(); <<>> stands for null, <<item>> for an item.
getTodoToShow(todos) ==
    IF Len(todos) = 0 THEN <<>>
    ELSE IF withStatus(todos, "in_progress") # <<>>
         THEN <<withStatus(todos, "in_progress")[1]>>
    ELSE IF withStatus(todos, "pending") # <<>>
         THEN <<withStatus(todos, "pending")[1]>>
    ELSE IF withStatus(todos, "completed") # <<>>
         THEN <<withStatus(todos, "completed")[Len(withStatus(todos, "completed"))]>>
    ELSE <<>>

\* const todoToShow = getTodoToShow()
todoToShow == getTodoToShow(lastTodos)

\* The host replaces the snapshot by one where the session has a further todo.
todoAdded(item) ==
    /\ lastTodos' = Append(lastTodos, item)
    /\ UNCHANGED <<isTerminalLoading, resumeCall, emitted>>

\* The host replaces the snapshot by one where the session has no todo list.
todosCleared ==
    /\ lastTodos # <<>>
    /\ lastTodos' = <<>>
    /\ UNCHANGED <<isTerminalLoading, resumeCall, emitted>>

\* ------------------------------------- host requests of the sessions panel
\* handleRefresh: await context.refresh('repository', 'agentSessions')
handleRefresh ==
    /\ refreshPending' = refreshPending + 1
    /\ UNCHANGED <<sliceLoading, sliceError, dispatched, emitted>>

\* The promise of context.refresh resolves, or rejects into the catch that
\* only logs.
refreshSettled ==
    /\ refreshPending > 0
    /\ refreshPending' = refreshPending - 1
    /\ UNCHANGED <<sliceLoading, sliceError, dispatched, emitted>>

\* Values of AgentSessionsSlice.error; "" stands for an absent error.
SliceErrors == {"", "Failed to load sessions"}

\* The host replaces the slice's loading flag and error.
sliceUpdated(loading, error) ==
    /\ <<loading, error>> # <<sliceLoading, sliceError>>
    /\ sliceLoading' = loading
    /\ sliceError' = error
    /\ UNCHANGED <<refreshPending, dispatched, emitted>>

\* The messages of the sessions list area: the loading state, the two empty
\* states, or none when the groups are rendered.  The slice's error is not
\* read by the panel.
listMessages(list, filtered, isLoading) ==
    IF isLoading /\ Len(list) = 0 THEN {"Loading sessions..."}
    ELSE IF Len(filtered) = 0
         THEN {IF Len(list) = 0
               THEN "No active sessions found"
               ELSE "No sessions match the current filter"}
    ELSE {}

\* ---------------------------------- notifications of the sessions panel
\* str.trim(), for the blank as the only whitespace
RECURSIVE trim(_)
trim(str) ==
    IF Len(str) > 0 /\ Head(str) = " " THEN trim(Tail(str))
    ELSE IF Len(str) > 0 /\ str[Len(str)] = " " THEN trim(SubSeq(str, 1, Len(str) - 1))
    ELSE str

\* Mutant of canOpenDirectory: the sentinel label is not excluded.
canOpenDirectory_anyLabel(group) == Len(trim(group.directory)) > 0

canOpenDirectory(group) ==
    group.directory # UNKNOWN_DIRECTORY_LABEL /\ Len(trim(group.directory)) > 0

shouldShowDirectoryHeader(groups, group) == Len(groups) > 1 \/ ~group.isCurrentDirectory

\* The panel events of the handlers (the timestamp is left out).
selectSessionEvent(sessionId) ==
    [type |-> "agent-sessions:select-session",
     source |-> "agent-sessions-panel",
     payload |-> [sessionId |-> sessionId]]

deleteSessionEvent(sessionId, workingDirectory) ==
    [type |-> "agent-sessions:delete-session",
     source |-> "agent-sessions-panel",
     payload |-> [sessionId |-> sessionId, workingDirectory |-> workingDirectory]]

openDirectoryEvent(directory) ==
    [type |-> "agent-sessions:open-directory",
     source |-> "agent-sessions-panel",
     payload |-> [directory |-> directory]]

handleSessionSelect(sessionId) == emitted' = Append(emitted, selectSessionEvent(sessionId))

handleDeleteSession(sessionId, workingDirectory) ==
    emitted' = Append(emitted, deleteSessionEvent(sessionId, workingDirectory))

handleOpenDirectory(directory) == emitted' = Append(emitted, openDirectoryEvent(directory))

\* The Details button of the card of session s.
detailsClicked(s) ==
    /\ handleSessionSelect(s.session.sessionId)
    /\ UNCHANGED <<isTerminalLoading, resumeCall, lastTodos>>

\* Mutant of deleteClicked: the answer to the dialog is not looked at.
deleteClicked_unconfirmed(s, confirmed) ==
    /\ handleDeleteSession(s.session.sessionId, s.session.workingDirectory)
    /\ UNCHANGED <<isTerminalLoading, resumeCall, lastTodos>>

\* The Delete button of the card of session s; confirmed is the answer to
\* confirm('Are you sure you want to delete this session?').
deleteClicked(s, confirmed) ==
    /\ IF confirmed
       THEN handleDeleteSession(s.session.sessionId, s.session.workingDirectory)
       ELSE UNCHANGED emitted
    /\ UNCHANGED <<isTerminalLoading, resumeCall, lastTodos>>

\* A click on the header of a group; the header has an onClick only when it
\* is shown, the directory can be opened and it is not the current one.
directoryHeaderClicked(groups, group) ==
    /\ shouldShowDirectoryHeader(groups, group)
    /\ canOpenDirectory(group)
    /\ ~group.isCurrentDirectory
    /\ handleOpenDirectory(group.directory)

\* The panel event of handleOpenTerminal (the timestamp is left out).
openTerminalEvent(sessionId) ==
    [type |-> "agent-sessions:open-terminal",
     source |-> "agent-sessions-panel",
     payload |-> [sessionId |-> sessionId]]

\* handleOpenTerminal: events.emit({...})
handleOpenTerminal(sessionId) == emitted' = Append(emitted, openTerminalEvent(sessionId))

\* handleResume of the card at position c, up to the await: the flag is set
\* and onOpenTerminal() runs.  A card whose flag is set has a disabled button
\* and a handler that returns at once.
handleResume(c) ==
    /\ ~isTerminalLoading[c]
    /\ isTerminalLoading' = [isTerminalLoading EXCEPT ![c] = TRUE]
    /\ resumeCall' = [resumeCall EXCEPT ![c] = "awaiting"]
    /\ handleOpenTerminal(sessions[c].session.sessionId)
    /\ UNCHANGED lastTodos

\* The await of handleResume returns or throws: finally arms the timer.
resumeSettled(c) ==
    /\ resumeCall[c] = "awaiting"
    /\ resumeCall' = [resumeCall EXCEPT ![c] = "timer"]
    /\ UNCHANGED <<isTerminalLoading, lastTodos, emitted>>

\* Variant of resumeTimerFired whose callback leaves the flag set.
resumeTimerFired_flagKept(c) ==
    /\ resumeCall[c] = "timer"
    /\ resumeCall' = [resumeCall EXCEPT ![c] = "none"]
    /\ UNCHANGED <<isTerminalLoading, lastTodos, emitted>>

\* setTimeout(() => setIsTerminalLoading(false), 1500) fires.
resumeTimerFired(c) ==
    /\ resumeCall[c] = "timer"
    /\ resumeCall' = [resumeCall EXCEPT ![c] = "none"]
    /\ isTerminalLoading' = [isTerminalLoading EXCEPT ![c] = FALSE]
    /\ UNCHANGED <<lastTodos, emitted>>

\* The card at position c leaves the list: its state is dropped, and a timer
\* that fires later sets the state of no mounted card.
cardUnmounted(c) ==
    /\ isTerminalLoading' = [isTerminalLoading EXCEPT ![c] = FALSE]
    /\ resumeCall' = [resumeCall EXCEPT ![c] = "none"]
    /\ UNCHANGED lastTodos

\* ------------------------------------------------------------ panel tools
\* The panel events a tool invocation dispatches: tool_call_template.event_type
\* with the tool's inputs as payload.
ToolEvents ==
    { [type |-> "agent-events:clear", payload |-> <<>>],
      [type |-> "agent-events:filter", payload |-> [eventTypes |-> {"stop"}]],
      [type |-> "agent-events:toggle-repo-filter", payload |-> [enabled |-> FALSE]],
      [type |-> "agent-sessions:filter", payload |-> [status |-> "idle"]],
      [type |-> "agent-sessions:refresh", payload |-> [force |-> TRUE]] }

\* The event types the two panels subscribe to with events.on(...).
subscribedTypes == {"agent-event:received"}

\* The bus delivers a tool event: no panel has a handler for its type, so
\* no handler runs.
toolEventDispatched(toolEvent) ==
    /\ toolEvent.type \notin subscribedTypes
    /\ dispatched' = Append(dispatched, toolEvent)
    /\ UNCHANGED <<sliceLoading, sliceError, refreshPending, emitted>>

\* Nothing requested, emitted or dispatched yet; every card as mounted, the
\* events panel mounted with the subscription of its first effect run.
RestInit ==
    /\ sliceLoading = FALSE
    /\ sliceError = ""
    /\ refreshPending = 0
    /\ isTerminalLoading = [c \in 1..MaxSessions |-> FALSE]
    /\ resumeCall = [c \in 1..MaxSessions |-> "none"]
    /\ lastTodos = <<>>
    /\ emitted = <<>>
    /\ dispatched = <<>>
    /\ colorIndex = 0
    /\ sessionColor = getSessionColor(0)
    /\ mounted = TRUE
    /\ subscribers = 1
    /\ lastAction = <<>>

EventsInit ==
    /\ events = <<>>
    /\ expandedEvents = {}
    /\ filterByRepo = TRUE
    /\ selectedEventTypes = {}
    /\ autoScroll = TRUE
    /\ eventCounterRef = 0
    /\ now = 0
    /\ appendedLog = <<>>

\* ------------------------------------------- interactive specification
Receive ==
    \E panelEvent \in PanelEvents :
        now < MaxDeliveries /\ agentEventReceived(panelEvent) /\ UNCHANGED <<sessionsVars, restVars>>
ToggleExpanded ==
    \E i \in 1..Len(filteredEvents) :
        toggleExpanded(filteredEvents[i].localIndex) /\ UNCHANGED <<sessionsVars, restVars>>
ClearEvents == clearEvents /\ UNCHANGED <<sessionsVars, restVars>>
ToggleEventTypeFilter ==
    \E t \in availableEventTypes : toggleEventTypeFilter(t) /\ UNCHANGED <<sessionsVars, restVars>>
ToggleFilterByRepo == toggleFilterByRepo /\ UNCHANGED <<sessionsVars, restVars>>
ToggleAutoScroll == toggleAutoScroll /\ UNCHANGED <<sessionsVars, restVars>>
ScopeChanged == \E path \in ScopePaths : scopeChanged(path) /\ UNCHANGED <<sessionsVars, restVars>>

Init == EventsInit /\ SessionsInit /\ RestInit /\ repositoryPath \in ScopePaths

Next ==
    \/ Receive
    \/ ToggleExpanded
    \/ ClearEvents
    \/ ToggleEventTypeFilter
    \/ ToggleFilterByRepo
    \/ ToggleAutoScroll
    \/ ScopeChanged

Spec == Init /\ [][Next]_vars

\* --------------------------------------------- streaming specification
\* The host streams a fixed script of events, long enough to overflow the
\* buffer; the user acts only during the first UserWindow deliveries.
streamEvent(k) ==
    [eventType |-> IF k % 3 = 0 THEN "stop" ELSE "pre-tool-use",
     root |-> IF k % 5 = 4 THEN NoPath ELSE PathA,
     workingDirectory |-> PathB]

StreamReceive ==
    /\ now < MaxStream
    /\ agentEventReceived([payload |-> <<streamEvent(now)>>])
    /\ UNCHANGED <<sessionsVars, restVars>>
StreamClearEvents == now <= UserWindow /\ clearEvents /\ UNCHANGED <<sessionsVars, restVars>>
StreamToggleFilterByRepo == now <= UserWindow /\ toggleFilterByRepo /\ UNCHANGED <<sessionsVars, restVars>>
StreamScopeChanged ==
    \E path \in ScopePaths :
        now <= UserWindow /\ scopeChanged(path) /\ UNCHANGED <<sessionsVars, restVars>>

\* The user expands or collapses the oldest buffered entry.
StreamToggleExpanded ==
    /\ now <= UserWindow
    /\ events # <<>>
    /\ toggleExpanded(events[1].localIndex)
    /\ UNCHANGED <<sessionsVars, restVars>>

StreamNext ==
    \/ StreamReceive
    \/ StreamToggleExpanded
    \/ StreamClearEvents
    \/ StreamToggleFilterByRepo
    \/ StreamScopeChanged

SpecStream == Init /\ [][StreamNext]_vars

\* ------------------------------------------ sessions panel specification
SetStatusFilter ==
    \E value \in StatusFilters : setStatusFilter(value) /\ UNCHANGED <<eventsVars, restVars>>
SessionAdded ==
    \E s \in SessionsAt(Len(sessions) + 1) :
        Len(sessions) < MaxSessions /\ sessionAdded(s) /\ UNCHANGED <<eventsVars, restVars>>
SessionRemoved == sessionRemoved /\ UNCHANGED <<eventsVars, restVars>>
SessionsScopeChanged ==
    \E path \in SessionsScopePaths : scopeChanged(path) /\ UNCHANGED <<sessionsVars, restVars>>

SessionsSpecInit ==
    EventsInit /\ SessionsInit /\ RestInit /\ repositoryPath \in SessionsScopePaths

SessionsNext ==
    \/ SetStatusFilter
    \/ SessionAdded
    \/ SessionRemoved
    \/ SessionsScopeChanged

SpecSessions == SessionsSpecInit /\ [][SessionsNext]_vars

\* ------------------------- grouping as a function of all of its inputs
\* The panel has no control that sets the query; here it is an input like
\* the snapshot, the status filter and the scoped repository.
Queries == {<<>>, <<"/">>, <<"S", "1">>}

GroupingInit ==
    /\ EventsInit
    /\ RestInit
    /\ sessions = <<>>
    /\ statusFilter = "all"
    /\ searchQuery \in Queries
    /\ repositoryPath \in SessionsScopePaths

SpecGrouping == GroupingInit /\ [][SessionsNext]_vars

\* ------------------------------ directory spellings of the sessions panel
\* Every directory string of at most two characters over separators and one
\* letter in both cases, the separator-only strings among them.
PathChars == {"/", "\\", "a", "A"}

SpelledPaths ==
    {<<c>> : c \in PathChars} \cup {<<c, d>> : c \in PathChars, d \in PathChars}

SpelledSessionsAt(i) ==
    { [session |-> [sessionId |-> <<"s", Digits[i]>>,
                    directory |-> d,
                    workingDirectory |-> d,
                    lastActivity |-> 1,
                    customName |-> <<>>,
                    status |-> "active"],
       latestEvent |-> <<>>] : d \in SpelledPaths }

SpelledSessionAdded ==
    \E s \in SpelledSessionsAt(Len(sessions) + 1) :
        Len(sessions) < MaxSessions /\ sessionAdded(s) /\ UNCHANGED <<eventsVars, restVars>>

PathsInit == EventsInit /\ SessionsInit /\ RestInit /\ repositoryPath = NoPath

PathsNext ==
    \/ SpelledSessionAdded
    \/ SessionRemoved

SpecPaths == PathsInit /\ [][PathsNext]_vars

\* ------------------------------------------ text search of the sessions panel
\* Sessions with and without a custom name and a latest event, under a query
\* that is an input of the panel.
SearchNames == {<<>>, <<"A", "b">>}

SearchEvents ==
    { <<>>,
      <<[toolName |-> <<"R">>, fileName |-> <<>>]>>,
      <<[toolName |-> <<"R">>, fileName |-> <<"f">>]>> }

SearchQueries ==
    { <<>>, <<"b", "s">>, <<"B", " ", "S">>, <<"c", " ", "r">>, <<"R", "F">>, <<"x">> }

SearchSessionsAt(i) ==
    { [session |-> [sessionId |-> <<"s", Digits[i]>>,
                    directory |-> w,
                    workingDirectory |-> w,
                    lastActivity |-> 1,
                    customName |-> c,
                    status |-> "active"],
       latestEvent |-> le] :
        w \in {<<"/", "b">>, <<"/", "c">>}, c \in SearchNames, le \in SearchEvents }

SearchSessionAdded ==
    \E s \in SearchSessionsAt(Len(sessions) + 1) :
        Len(sessions) < MaxSessions /\ sessionAdded(s) /\ UNCHANGED <<eventsVars, restVars>>

SearchInit ==
    /\ EventsInit
    /\ RestInit
    /\ sessions = <<>>
    /\ statusFilter = "all"
    /\ searchQuery \in SearchQueries
    /\ repositoryPath = NoPath

SearchNext ==
    \/ SearchSessionAdded
    \/ SessionRemoved

SpecSearch == SearchInit /\ [][SearchNext]_vars

\* ------------------------------------------------ colour of a session index
ColorRequested ==
    /\ colorIndex < MaxColorIndex
    /\ colorRequested
    /\ UNCHANGED <<eventsVars, sessionsVars, hostVars, cardVars, busVars, lastAction>>

ColorsInit == EventsInit /\ SessionsInit /\ RestInit /\ repositoryPath = NoPath

ColorsNext == ColorRequested

SpecColors == ColorsInit /\ [][ColorsNext]_vars

\* ------------------------------------------------ current task of a card
TodoAdded ==
    \E item \in TodosAt(Len(lastTodos) + 1) :
        /\ Len(lastTodos) < MaxTodos
        /\ todoAdded(item)
        /\ UNCHANGED <<eventsVars, sessionsVars, hostVars, colorVars, busVars, lastAction>>
TodosCleared == todosCleared /\ UNCHANGED <<eventsVars, sessionsVars, hostVars, colorVars, busVars, lastAction>>

TodosInit == EventsInit /\ SessionsInit /\ RestInit /\ repositoryPath = NoPath

TodosNext ==
    \/ TodoAdded
    \/ TodosCleared

SpecTodos == TodosInit /\ [][TodosNext]_vars

\* ---------------------------------- requests and slice of the sessions panel
\* The session the host puts at position i of the snapshot.
RequestSessionAt(i) ==
    [session |-> [sessionId |-> <<"s", Digits[i]>>,
                  directory |-> PathB,
                  workingDirectory |-> PathB,
                  lastActivity |-> 1,
                  customName |-> <<>>,
                  status |-> "active"],
     latestEvent |-> <<>>]

RequestSessionAdded ==
    /\ Len(sessions) < MaxSessions
    /\ sessionAdded(RequestSessionAt(Len(sessions) + 1))
    /\ UNCHANGED <<eventsVars, restVars>>
RequestSessionRemoved ==
    /\ sessionRemoved
    /\ cardUnmounted(Len(sessions))
    /\ UNCHANGED <<eventsVars, hostVars, colorVars, busVars, lastAction>>
HandleRefresh ==
    /\ refreshPending < MaxRefreshes
    /\ handleRefresh
    /\ UNCHANGED <<eventsVars, sessionsVars, cardVars, colorVars, busVars, lastAction>>
RefreshSettled == refreshSettled /\ UNCHANGED <<eventsVars, sessionsVars, cardVars, colorVars, busVars, lastAction>>
SliceUpdated ==
    \E loading \in BOOLEAN, error \in SliceErrors :
        sliceUpdated(loading, error) /\ UNCHANGED <<eventsVars, sessionsVars, cardVars, colorVars, busVars, lastAction>>
HandleResume ==
    \E c \in 1..Len(sessions) :
        /\ Len(emitted) < MaxEmitted
        /\ handleResume(c)
        /\ UNCHANGED <<eventsVars, sessionsVars, hostVars, colorVars, busVars, lastAction>>
ResumeSettledOn(c) ==
    /\ c \in 1..Len(sessions)
    /\ resumeSettled(c)
    /\ UNCHANGED <<eventsVars, sessionsVars, hostVars, colorVars, busVars, lastAction>>
ResumeSettled == \E c \in 1..MaxSessions : ResumeSettledOn(c)
ResumeTimerFiredOn(c) ==
    /\ c \in 1..Len(sessions)
    /\ resumeTimerFired(c)
    /\ UNCHANGED <<eventsVars, sessionsVars, hostVars, colorVars, busVars, lastAction>>
ResumeTimerFired == \E c \in 1..MaxSessions : ResumeTimerFiredOn(c)

RequestsInit == EventsInit /\ SessionsInit /\ RestInit /\ repositoryPath = NoPath

RequestsNext ==
    \/ RequestSessionAdded
    \/ RequestSessionRemoved
    \/ HandleRefresh
    \/ RefreshSettled
    \/ SliceUpdated
    \/ HandleResume
    \/ ResumeSettled
    \/ ResumeTimerFired

SpecRequests == RequestsInit /\ [][RequestsNext]_vars

\* The same panel with its scheduling: onOpenTerminal is the panel's
\* synchronous emit, so the await of handleResume settles (by returning or
\* by throwing) and the finally block arms the timer; the event loop runs
\* every armed timer.
ResumeScheduling ==
    \A c \in 1..MaxSessions :
        WF_vars(ResumeSettledOn(c)) /\ WF_vars(ResumeTimerFiredOn(c))

SpecResume == RequestsInit /\ [][RequestsNext]_vars /\ ResumeScheduling

\* ------------------------------------------- tools dispatched to the panels
ToolEventDispatched ==
    \E toolEvent \in ToolEvents :
        /\ Len(dispatched) < MaxToolEvents
        /\ toolEventDispatched(toolEvent)
        /\ UNCHANGED <<eventsVars, sessionsVars, cardVars, colorVars, busVars, lastAction>>

ToolsNext ==
    \/ Receive
    \/ ToolEventDispatched

SpecTools == Init /\ [][ToolsNext]_vars

\* ------------------------------------ user actions of the sessions panel
\* Sessions with and without a directory.
ActionSessionsAt(i) ==
    { [session |-> [sessionId |-> <<"s", Digits[i]>>,
                    directory |-> d[1],
                    workingDirectory |-> d[2],
                    lastActivity |-> 1,
                    customName |-> <<>>,
                    status |-> "active"],
       latestEvent |-> <<>>] : d \in {<<NoPath, NoPath>>, <<PathA, PathB>>} }

ActionSessionAdded ==
    \E s \in ActionSessionsAt(Len(sessions) + 1) :
        Len(sessions) < MaxSessions /\ sessionAdded(s) /\ UNCHANGED <<eventsVars, restVars>>
\* What the user did: the button, the session of its card or the directory
\* of its group header, and the answer to the confirm dialog.
userAction(kind, sessionId, workingDirectory, directory, confirmed) ==
    [kind |-> kind, sessionId |-> sessionId, workingDirectory |-> workingDirectory,
     directory |-> directory, confirmed |-> confirmed]

onCard(kind, s, confirmed) ==
    userAction(kind, s.session.sessionId, s.session.workingDirectory, <<>>, confirmed)

DetailsClicked ==
    \E c \in 1..Len(filteredSessions) :
        /\ Len(emitted) < MaxNotifications
        /\ detailsClicked(filteredSessions[c])
        /\ lastAction' = <<onCard("details", filteredSessions[c], TRUE)>>
        /\ UNCHANGED <<eventsVars, sessionsVars, hostVars, colorVars, busVars>>
DeleteClicked ==
    \E c \in 1..Len(filteredSessions), confirmed \in BOOLEAN :
        /\ Len(emitted) < MaxNotifications
        /\ deleteClicked(filteredSessions[c], confirmed)
        /\ lastAction' = <<onCard("delete", filteredSessions[c], confirmed)>>
        /\ UNCHANGED <<eventsVars, sessionsVars, hostVars, colorVars, busVars>>
DirectoryHeaderClicked ==
    \E i \in 1..Len(sessionsByDirectory) :
        /\ Len(emitted) < MaxNotifications
        /\ directoryHeaderClicked(sessionsByDirectory, sessionsByDirectory[i])
        /\ lastAction' = <<userAction("header", <<>>, <<>>,
                                      sessionsByDirectory[i].directory, TRUE)>>
        /\ UNCHANGED <<eventsVars, sessionsVars, hostVars, cardVars, colorVars, busVars>>
ResumeClicked ==
    \E c \in 1..Len(sessions) :
        /\ Len(emitted) < MaxNotifications
        /\ handleResume(c)
        /\ lastAction' = <<onCard("resume", sessions[c], TRUE)>>
        /\ UNCHANGED <<eventsVars, sessionsVars, hostVars, colorVars, busVars>>

ActionsInit ==
    EventsInit /\ SessionsInit /\ RestInit /\ repositoryPath \in {NoPath, PathA}

ActionsNext ==
    \/ ActionSessionAdded
    \/ RequestSessionRemoved
    \/ DetailsClicked
    \/ DeleteClicked
    \/ DirectoryHeaderClicked
    \/ ResumeClicked
    \/ ResumeSettled
    \/ ResumeTimerFired

SpecActions == ActionsInit /\ [][ActionsNext]_vars

\* --------------------------------- subscription life cycle of the events panel
LifecycleReceive ==
    \E panelEvent \in PanelEvents :
        /\ now < MaxDeliveries
        /\ busDelivered(panelEvent)
        /\ UNCHANGED <<sessionsVars, hostVars, cardVars, colorVars, lastAction>>
LifecycleToggleFilterByRepo ==
    /\ mounted
    /\ toggleFilterByRepo
    /\ resubscribed
    /\ UNCHANGED <<mounted, sessionsVars, hostVars, cardVars, colorVars, lastAction>>
LifecycleToggleAutoScroll ==
    /\ mounted
    /\ toggleAutoScroll
    /\ UNCHANGED <<sessionsVars, restVars>>
LifecycleScopeChanged ==
    \E path \in ScopePaths :
        /\ mounted
        /\ scopeChanged(path)
        /\ resubscribed
        /\ UNCHANGED <<mounted, sessionsVars, hostVars, cardVars, colorVars, lastAction>>
PanelUnmounted ==
    panelUnmounted /\ UNCHANGED <<sessionsVars, hostVars, cardVars, colorVars, lastAction>>

LifecycleNext ==
    \/ LifecycleReceive
    \/ LifecycleToggleFilterByRepo
    \/ LifecycleToggleAutoScroll
    \/ LifecycleScopeChanged
    \/ PanelUnmounted

SpecLifecycle == Init /\ [][LifecycleNext]_vars

\* ===================================================== events panel claims
\* C1: in every reachable state the event buffer holds at most 500 entries.
C1_BufferBounded == Len(events) <= MAX_EVENTS

C1_Witness == Len(events) = MAX_EVENTS /\ Len(appendedLog) > MAX_EVENTS + 1

\* C2: once more than 500 events have been appended with no clear in between,
\* the buffer holds exactly 500 entries, and they are the 500 most recently
\* appended events in receipt order (the oldest ones are the evicted ones).
C2_KeepsMostRecent ==
    Len(appendedLog) > MAX_EVENTS =>
        /\ Len(events) = MAX_EVENTS
        /\ \A i \in 1..MAX_EVENTS :
              LET l == appendedLog[Len(appendedLog) - MAX_EVENTS + i] IN
              /\ events[i].event = l.event
              /\ events[i].timestamp = l.at
              /\ events[i].localIndex = eventCounterRef - MAX_EVENTS + i - 1

\* Events 0..500 received by a fresh panel: 1..500 are buffered, 0 is gone.
C2_Witness ==
    /\ eventCounterRef = MAX_EVENTS + 1
    /\ Len(appendedLog) = MAX_EVENTS + 1
    /\ events[1].localIndex = 1
    /\ events[MAX_EVENTS].localIndex = MAX_EVENTS

\* C3: sequence numbers are assigned from a counter that is never reset or
\* decremented: every buffered number is below the counter, numbers grow
\* along the buffer, an append assigns exactly the counter's value (whatever
\* the payload) and advances it, and no step (eviction, clear) lowers it.
C3_SequenceNumbers ==
    /\ [](\A i \in 1..Len(events) :
            /\ events[i].localIndex < eventCounterRef
            /\ i > 1 => events[i - 1].localIndex < events[i].localIndex)
    /\ [][/\ eventCounterRef' >= eventCounterRef
          /\ Len(appendedLog') > Len(appendedLog) =>
                /\ events'[Len(events')].localIndex = eventCounterRef
                /\ eventCounterRef' = eventCounterRef + 1]_vars

\* A full buffer after a clear and after evictions.
C3_Witness ==
    /\ Len(appendedLog) > MAX_EVENTS
    /\ eventCounterRef > Len(appendedLog)
    /\ Len(events) = MAX_EVENTS

\* C4: the buffer is the tail of what was appended, in delivery order, one
\* entry per delivery (also for identical payloads), earlier deliveries first.
C4_DeliveryOrder ==
    LET n == Len(events)
        m == Len(appendedLog)
    IN /\ n = IF m > MAX_EVENTS THEN MAX_EVENTS ELSE m
       /\ \A i \in 1..n :
             /\ events[i].event = appendedLog[m - n + i].event
             /\ events[i].timestamp = appendedLog[m - n + i].at
             /\ i > 1 => events[i - 1].timestamp < events[i].timestamp

\* Two deliveries with the same payload, both buffered, and a third one.
C4_Witness ==
    /\ Len(events) = 3
    /\ events[1].event = events[2].event
    /\ events[3].event # events[1].event

C6_TypeFilter ==
    LET f == filteredEvents
        wanted == {i \in 1..Len(events) : events[i].event.eventType \in selectedEventTypes}
    IN /\ selectedEventTypes = {} => f = events
       /\ selectedEventTypes # {} =>
            /\ Len(f) = Cardinality(wanted)
            /\ \A k \in 1..Len(f) :
                  /\ \E i \in wanted : events[i] = f[k]
                  /\ k > 1 => f[k - 1].localIndex < f[k].localIndex

C6_Witness ==
    /\ selectedEventTypes = {"stop"}
    /\ Len(events) = 3
    /\ Len(filteredEvents) = 2

\* C7: toggling N flips the membership of N in the expansion set and of no
\* other number, so toggling N twice restores the set; a step that changes
\* only the expansion set changes the membership of exactly one number.
C7_ToggleExpanded ==
    /\ [](\A n \in 0..eventCounterRef :
            LET t == toggleMember(expandedEvents, n) IN
            /\ (n \in t) # (n \in expandedEvents)
            /\ t \ {n} = expandedEvents \ {n}
            /\ toggleMember(t, n) = expandedEvents)
    /\ [][(events' = events /\ expandedEvents' # expandedEvents) =>
            Cardinality((expandedEvents \ expandedEvents') \cup
                        (expandedEvents' \ expandedEvents)) = 1]_vars

\* An expanded entry next to a collapsed one, and an expanded number whose
\* entry is no longer displayed.
C7_Witness ==
    /\ Cardinality(expandedEvents) = 2
    /\ Len(filteredEvents) = 2
    /\ \E i \in 1..2 : filteredEvents[i].localIndex \notin expandedEvents

\* =================================================== sessions panel claims
\* The sessions of the displayed groups, as a set of <<group, position>>.
Placed(g) == UNION { { <<i, j>> : j \in 1..Len(g[i].sessions) } : i \in 1..Len(g) }

\* TRUE when sessions a and b are members of one group of g.
SameGroup(g, a, b) ==
    \E i \in 1..Len(g) :
        /\ \E j \in 1..Len(g[i].sessions) : g[i].sessions[j] = a
        /\ \E j \in 1..Len(g[i].sessions) : g[i].sessions[j] = b

\* C8: the directory groups partition the filtered sessions: each filtered
\* session is in exactly one group, groups hold filtered sessions only, no
\* group is empty, and no filtered session means no group.
IsPartition(g, f) ==
    /\ \A k \in 1..Len(f) :
          Cardinality({p \in Placed(g) : g[p[1]].sessions[p[2]] = f[k]}) = 1
    /\ \A p \in Placed(g) : \E k \in 1..Len(f) : f[k] = g[p[1]].sessions[p[2]]
    /\ \A i \in 1..Len(g) : Len(g[i].sessions) > 0
    /\ f = <<>> => g = <<>>

C8_GroupsPartition == IsPartition(sessionsByDirectory, filteredSessions)

\* Two sessions that pass a non-empty query and share a group although their
\* directories are written differently.
C8_Witness ==
    /\ searchQuery # <<>>
    /\ Len(filteredSessions) = 2
    /\ Len(sessionsByDirectory) = 1
    /\ rawDirectory(filteredSessions[1]) # rawDirectory(filteredSessions[2])

\* C9: the group of the current repository, when there is one, is the first
\* group; the other groups are in ascending order of their directory.
IsCurrentGroup(group, repoPath) ==
    repoPath # <<>> /\ group.normalizedDirectory = repoPath

CurrentFirstThenByName(g, repoPath) ==
    /\ \A i \in 1..Len(g) : IsCurrentGroup(g[i], repoPath) => i = 1
    /\ \A i \in 1..Len(g) : g[i].isCurrentDirectory = IsCurrentGroup(g[i], repoPath)
    /\ \A i \in 1..(Len(g) - 1) :
          ~IsCurrentGroup(g[i], repoPath) =>
              localeCompare(g[i].directory, g[i + 1].directory) < 0

C9_CurrentFirstThenByName ==
    CurrentFirstThenByName(sessionsByDirectory, normalizedRepositoryPath)

\* The current group comes first although its directory sorts last.
SecondSortsFirst(g) ==
    /\ Len(g) = 2
    /\ g[1].isCurrentDirectory
    /\ localeCompare(g[2].directory, g[1].directory) < 0

C9_Witness == SecondSortsFirst(sessionsByDirectory)

\* C10 as stated: two filtered sessions share a group exactly when their
\* normalized working directories are equal.
GroupedByWorkingDirectory(g, f) ==
    \A k, l \in 1..Len(f) :
        SameGroup(g, f[k], f[l])
            <=> (normalizePath(f[k].session.workingDirectory)
                    = normalizePath(f[l].session.workingDirectory))

C10_Original == GroupedByWorkingDirectory(sessionsByDirectory, filteredSessions)

\* C10 amended: two filtered sessions share a group exactly when the
\* normalized paths of their directories are equal, the directory of a
\* session being its directory field, else its working directory, else the
\* 'Unknown Directory' label.
GroupedByDirectory(g, f) ==
    \A k, l \in 1..Len(f) :
        SameGroup(g, f[k], f[l])
            <=> (normalizePath(rawDirectory(f[k])) = normalizePath(rawDirectory(f[l])))

C10_GroupedByDirectory == GroupedByDirectory(sessionsByDirectory, filteredSessions)

\* One group of two sessions whose directories are written differently, one
\* of them with a working directory that differs from its directory.
MergedAcrossSpellings(g, f) ==
    /\ Len(f) = 2
    /\ Len(g) = 1
    /\ f[1].session.directory = PathA
    /\ f[1].session.workingDirectory = PathB
    /\ rawDirectory(f[2]) = <<"\\", "a">>

C10_Witness == MergedAcrossSpellings(sessionsByDirectory, filteredSessions)

\* C11: two directory strings that differ only in trailing separators or in
\* the separator style ("/" against "\") get the same group key, the strings
\* made of separators only included, and two strings that differ in letter
\* case get different keys.
separatorsStripped(path) == trimTrailingSlashes(unifySeparators(path))

KeysIgnoreSeparatorSpelling(g, f) ==
    \A k, l \in 1..Len(f) :
        LET x == separatorsStripped(f[k].session.directory)
            y == separatorsStripped(f[l].session.directory) IN
        /\ x = y => SameGroup(g, f[k], f[l])
        /\ (x # y /\ toLowerCase(x) = toLowerCase(y)) => ~SameGroup(g, f[k], f[l])

C11_Original == KeysIgnoreSeparatorSpelling(sessionsByDirectory, filteredSessions)

\* C12: with an empty query the status filter "all" keeps every session of
\* the snapshot, and a filter s among active, idle and inactive keeps exactly
\* the sessions of the snapshot whose status is s, in snapshot order.
StatusFilterSelects(f, list, status) ==
    /\ status = "all" => f = list
    /\ status # "all" =>
        /\ Len(f) = Cardinality({i \in 1..Len(list) : list[i].session.status = status})
        /\ \A k \in 1..Len(f) :
              /\ f[k].session.status = status
              /\ \E i \in 1..Len(list) : list[i] = f[k]
        /\ \A k, l \in 1..Len(f) : k < l =>
              \E i, j \in 1..Len(list) : i < j /\ list[i] = f[k] /\ list[j] = f[l]

C12_StatusFilter ==
    searchQuery = <<>> => StatusFilterSelects(filteredSessions, sessions, statusFilter)

\* An active and an idle session of one directory under the filter "active":
\* one group that holds the active session only.
OnlyActiveShown(g, list) ==
    /\ Len(list) = 2
    /\ list[1].session.status = "active"
    /\ list[2].session.status = "idle"
    /\ rawDirectory(list[1]) = rawDirectory(list[2])
    /\ Len(g) = 1
    /\ g[1].sessions = <<list[1]>>

C12_Witness == statusFilter = "active" /\ OnlyActiveShown(sessionsByDirectory, sessions)

\* The fields the search looks at, absent ones left out.
presentFields(s) ==
    SelectSeq(<<s.session.customName,
                s.session.sessionId,
                s.session.workingDirectory,
                IF s.latestEvent = <<>> THEN <<>> ELSE s.latestEvent[1].toolName,
                IF s.latestEvent = <<>> THEN <<>> ELSE s.latestEvent[1].fileName>>,
              LAMBDA part : part # <<>>)

RECURSIVE concatenated(_)
concatenated(parts) ==
    IF parts = <<>> THEN <<>>
    ELSE concatenated(SubSeq(parts, 1, Len(parts) - 1)) \o parts[Len(parts)]

RECURSIVE spaceSeparated(_)
spaceSeparated(parts) ==
    IF Len(parts) <= 1 THEN concatenated(parts)
    ELSE spaceSeparated(SubSeq(parts, 1, Len(parts) - 1)) \o <<" ">> \o parts[Len(parts)]

Passes(f, s) == \E k \in 1..Len(f) : f[k] = s

\* C13 as stated: under a non-empty query a session passes exactly when the
\* lower-cased query is a substring of the lower-cased concatenation of its
\* custom name, id, working directory, last tool name and last file name,
\* absent fields skipped; the empty query excludes no session.
SearchOverConcatenation(f, list, query) ==
    /\ query = <<>> => f = list
    /\ query # <<>> =>
        \A i \in 1..Len(list) :
            Passes(f, list[i])
                <=> includes(toLowerCase(concatenated(presentFields(list[i]))),
                             toLowerCase(query))

SearchOverSpacedFields(f, list, query) ==
    /\ query = <<>> => f = list
    /\ query # <<>> =>
        \A i \in 1..Len(list) :
            Passes(f, list[i])
                <=> includes(toLowerCase(spaceSeparated(presentFields(list[i]))),
                             toLowerCase(query))

IsGreatestActivity(group) ==
    /\ \E j \in 1..Len(group.sessions) :
          group.sessions[j].session.lastActivity = group.lastActivity
    /\ \A j \in 1..Len(group.sessions) :
          group.sessions[j].session.lastActivity <= group.lastActivity

GroupsCarryGreatestActivity(g) == \A i \in 1..Len(g) : IsGreatestActivity(g[i])

C14_GroupLastActivity == GroupsCarryGreatestActivity(sessionsByDirectory)

\* A group whose earlier session is the more recent one.
EarlierSessionIsLatest(g) ==
    /\ Len(g) = 1
    /\ Len(g[1].sessions) = 2
    /\ g[1].sessions[1].session.lastActivity = 2
    /\ g[1].sessions[2].session.lastActivity = 1
    /\ g[1].lastActivity = 2

C14_Witness == EarlierSessionIsLatest(sessionsByDirectory)

\* C15: the colour of index i >= 0 is the palette entry at position i mod 8
\* of the eight fixed colours, so it is one of the eight colours and the
\* indices i and i + 8 get the same colour.
IsPaletteEntry(i, color) ==
    /\ Cardinality({SESSION_COLORS[k] : k \in 1..Len(SESSION_COLORS)}) = 8
    /\ \E r \in 0..7 :
          /\ \E q \in 0..i : i = 8 * q + r
          /\ color = SESSION_COLORS[r + 1]

C15_PaletteCycle ==
    /\ IsPaletteEntry(colorIndex, sessionColor)
    /\ getSessionColor(colorIndex) = sessionColor
    /\ getSessionColor(colorIndex + 8) = sessionColor

\* An index past the palette: 11 takes the fourth colour, as 3 does.
C15_Witness == colorIndex = 11 /\ sessionColor = "#f59e0b"

\* C16: the current-task item of a card is the first in-progress item of the
\* todo list if there is one, otherwise the first pending item, otherwise the
\* last completed item; no item is chosen only when the list holds no item
\* of one of these three statuses.
positionsOf(todos, status) == {i \in 1..Len(todos) : todos[i].status = status}

least(S) == CHOOSE i \in S : \A j \in S : i <= j
greatest(S) == CHOOSE i \in S : \A j \in S : j <= i

IsCurrentTask(todos, shown, running, waiting, done) ==
    /\ running # {} => shown = <<todos[least(running)]>>
    /\ (running = {} /\ waiting # {}) => shown = <<todos[least(waiting)]>>
    /\ (running = {} /\ waiting = {} /\ done # {}) => shown = <<todos[greatest(done)]>>
    /\ shown = <<>> <=> (running = {} /\ waiting = {} /\ done = {})

C16_CurrentTask ==
    IsCurrentTask(lastTodos, todoToShow,
                  positionsOf(lastTodos, "in_progress"),
                  positionsOf(lastTodos, "pending"),
                  positionsOf(lastTodos, "completed"))

\* Two in-progress items behind a completed and a pending one: the first of
\* the two is shown.
C16_Witness ==
    /\ Len(lastTodos) = 4
    /\ lastTodos[1].status = "completed"
    /\ lastTodos[2].status = "pending"
    /\ lastTodos[3].status = "in_progress"
    /\ lastTodos[4].status = "in_progress"
    /\ todoToShow = <<lastTodos[3]>>

\* C17: a loading flag guards the user-triggered host requests against
\* duplicates: at most one refresh request of the sessions panel is
\* outstanding at any time, and while the loading flag of a card is set no
\* further open-terminal request is issued for that card.
openTerminalCount(log, sessionId) ==
    Cardinality({k \in 1..Len(log) : log[k] = openTerminalEvent(sessionId)})

NoResumeWhileLoading ==
    \A c \in 1..Len(sessions) :
        isTerminalLoading[c] =>
            openTerminalCount(emitted', sessions[c].session.sessionId)
                = openTerminalCount(emitted, sessions[c].session.sessionId)

C17_Original == [](refreshPending <= 1) /\ [][NoResumeWhileLoading]_vars

\* C18 as stated: a step of the events panel that clears the events, changes
\* the selected event types or toggles the repository filter sends the host
\* the notification clear-events(), filter-events(eventTypes) or
\* toggle-repo-filter(enabled).
eventsNotification(type, payload) ==
    [type |-> type, source |-> "agent-events-panel", payload |-> payload]

NotifiesHost ==
    /\ (events # <<>> /\ events' = <<>>) =>
          emitted' = Append(emitted, eventsNotification("agent-events:clear", <<>>))
    /\ selectedEventTypes' # selectedEventTypes =>
          emitted' = Append(emitted, eventsNotification("agent-events:filter",
                                        [eventTypes |-> selectedEventTypes']))
    /\ filterByRepo' # filterByRepo =>
          emitted' = Append(emitted, eventsNotification("agent-events:toggle-repo-filter",
                                        [enabled |-> filterByRepo']))

C18_Original == [][NotifiesHost]_vars

\* C18, amended: clearing the events, changing the selected event types and
\* toggling the repository filter change the local state of the events panel
\* only; the events panel sends no notification to the host.
C18_NoNotification == emitted = <<>>

\* The user has selected a type, switched the repository filter off and
\* cleared a buffer that had received events.
C18_Witness ==
    /\ eventCounterRef > 0
    /\ events = <<>>
    /\ selectedEventTypes # {}
    /\ ~filterByRepo
    /\ emitted = <<>>

\* C19: the owning panel handles the dispatch event type of every declared
\* tool: delivering 'agent-events:clear' empties the buffer of the events
\* panel, 'agent-events:filter' and 'agent-events:toggle-repo-filter' set its
\* type selection and its repository filter, and 'agent-sessions:filter' with
\* status s sets the status filter of the sessions panel to s.
HandlesToolEvent(toolEvent) ==
    /\ toolEvent.type = "agent-events:clear" => events' = <<>>
    /\ toolEvent.type = "agent-events:filter" =>
          selectedEventTypes' = toolEvent.payload.eventTypes
    /\ toolEvent.type = "agent-events:toggle-repo-filter" =>
          filterByRepo' = toolEvent.payload.enabled
    /\ toolEvent.type = "agent-sessions:filter" => statusFilter' = toolEvent.payload.status

HandlesDispatch ==
    Len(dispatched') > Len(dispatched) => HandlesToolEvent(dispatched'[Len(dispatched')])

C19_Original == [][HandlesDispatch]_vars

\* C20: whenever the agentSessions slice carries an error string, what the
\* sessions panel renders includes that string.
C20_Original ==
    sliceError # "" => sliceError \in listMessages(sessions, filteredSessions, sliceLoading)

\* C21: a session with neither a directory nor a working directory is put in
\* a group keyed and labelled by the sentinel 'Unknown Directory', all such
\* sessions share that one group, and no open-directory notification is
\* emitted for that group.
HasNoDirectory(s) == s.session.directory = <<>> /\ s.session.workingDirectory = <<>>

InSentinelGroup(g, s) ==
    \E i \in 1..Len(g) :
        /\ \E j \in 1..Len(g[i].sessions) : g[i].sessions[j] = s
        /\ g[i].directory = UNKNOWN_DIRECTORY_LABEL
        /\ g[i].normalizedDirectory = UNKNOWN_DIRECTORY_LABEL

UnknownShareSentinel(g, f) ==
    /\ \A k \in 1..Len(f) : HasNoDirectory(f[k]) => InSentinelGroup(g, f[k])
    /\ Cardinality({i \in 1..Len(g) : g[i].directory = UNKNOWN_DIRECTORY_LABEL}) <= 1

NoOpenOfSentinel(log) ==
    \A k \in 1..Len(log) :
        log[k].type = "agent-sessions:open-directory"
            => log[k].payload.directory # UNKNOWN_DIRECTORY_LABEL

C21_UnknownDirectory ==
    /\ UnknownShareSentinel(sessionsByDirectory, filteredSessions)
    /\ NoOpenOfSentinel(emitted)

\* Two sessions without any directory in the sentinel group, next to a
\* panel that has emitted a notification.
SentinelGroupOfTwo(g, f) ==
    /\ Len(f) = 2
    /\ HasNoDirectory(f[1])
    /\ HasNoDirectory(f[2])
    /\ Len(g) = 1
    /\ g[1].normalizedDirectory = UNKNOWN_DIRECTORY_LABEL
    /\ Len(g[1].sessions) = 2

C21_Witness == SentinelGroupOfTwo(sessionsByDirectory, filteredSessions) /\ emitted # <<>>

\* C22: the filter-by-repo and auto-scroll toggles have no transition
\* constraint: in every reachable state either flag can be flipped by one
\* user action, and a step that flips a flag leaves the buffer, the
\* expansion set, the selected event types, the sequence counter and the
\* other flag unchanged.
TogglesEnabled == ENABLED ToggleFilterByRepo /\ ENABLED ToggleAutoScroll

FlipKeepsRest ==
    /\ filterByRepo' # filterByRepo =>
          UNCHANGED <<events, expandedEvents, selectedEventTypes, eventCounterRef, autoScroll>>
    /\ autoScroll' # autoScroll =>
          UNCHANGED <<events, expandedEvents, selectedEventTypes, eventCounterRef, filterByRepo>>

C22_FreeToggles == []TogglesEnabled /\ [][FlipKeepsRest]_vars

\* Both flags flipped away from their initial value over a buffer with an
\* expanded entry and a selected type.
C22_Witness ==
    /\ ~filterByRepo
    /\ ~autoScroll
    /\ events # <<>>
    /\ expandedEvents # {}
    /\ selectedEventTypes # {}

\* C23: a mounted events panel has exactly one handler subscribed to
\* 'agent-event:received', also across the re-subscriptions that a repo
\* filter toggle or a scope change causes, and none after unmount; so a
\* delivery appends an accepted event exactly once and nothing is appended
\* after teardown.
OneHandlerWhileMounted == subscribers = (IF mounted THEN 1 ELSE 0)

AppendsAtMostOnce ==
    /\ eventCounterRef' # eventCounterRef =>
          /\ eventCounterRef' = eventCounterRef + 1
          /\ Len(appendedLog') = Len(appendedLog) + 1
          /\ events'[Len(events')].localIndex = eventCounterRef
    /\ ~mounted => UNCHANGED <<events, eventCounterRef, appendedLog>>

C23_SingleSubscription == []OneHandlerWhileMounted /\ [][AppendsAtMostOnce]_vars

\* The panel was unmounted after re-subscriptions and an appended event, and
\* a delivery after the teardown appended nothing.
C23_Witness ==
    /\ ~mounted
    /\ subscribers = 0
    /\ ~filterByRepo
    /\ repositoryPath # NoPath
    /\ Len(events) = 1
    /\ now = 3

\* C24: each user action on the sessions list emits exactly one notification
\* with the data of what was acted on: open-terminal and select-session carry
\* the session id of the card, open-directory the directory of the group,
\* delete-session the session id and working directory of the card, and a
\* declined deletion emits nothing.
notificationOf(a) ==
    IF a.kind = "resume" THEN <<openTerminalEvent(a.sessionId)>>
    ELSE IF a.kind = "details" THEN <<selectSessionEvent(a.sessionId)>>
    ELSE IF a.kind = "header" THEN <<openDirectoryEvent(a.directory)>>
    ELSE IF a.confirmed THEN <<deleteSessionEvent(a.sessionId, a.workingDirectory)>>
    ELSE <<>>

EmitsItsNotification ==
    (lastAction' # lastAction \/ emitted' # emitted)
        => emitted' = emitted \o notificationOf(lastAction'[1])

C24_OneNotificationPerAction == [][EmitsItsNotification]_vars

\* A confirmed deletion of the second session, which has a working
\* directory, emitted as the only notification.
C24_Witness ==
    /\ Len(sessions) = 2
    /\ lastAction # <<>>
    /\ lastAction[1].kind = "delete"
    /\ lastAction[1].confirmed
    /\ emitted = <<deleteSessionEvent(<<"s", "2">>, PathB)>>

\* C25: the repository filter acts at receipt: a delivered event is dropped
\* (buffer unchanged, no sequence number consumed) exactly when the repo
\* filter is on, a repository is scoped and the event's repository root, or
\* its working directory when it has no root, differs from the scoped path;
\* otherwise an event with a payload is appended.
repositoryOf(agentEvent) ==
    IF agentEvent.root = <<>> THEN agentEvent.workingDirectory ELSE agentEvent.root

IsForeign(agentEvent) ==
    filterByRepo /\ repositoryPath # <<>> /\ repositoryOf(agentEvent) # repositoryPath

DroppedOrAppended(agentEvent) ==
    IF IsForeign(agentEvent)
    THEN UNCHANGED <<events, eventCounterRef>>
    ELSE /\ eventCounterRef' = eventCounterRef + 1
         /\ events' # <<>>
         /\ events'[Len(events')].event = agentEvent
         /\ events'[Len(events')].localIndex = eventCounterRef

FilteredAtReceipt ==
    \A panelEvent \in PanelEvents :
        (panelEvent.payload # <<>> /\ agentEventReceived(panelEvent))
            => DroppedOrAppended(panelEvent.payload[1])

EmptyPayloadIgnored ==
    agentEventReceived([payload |-> <<>>])
        => UNCHANGED <<events, eventCounterRef, expandedEvents, selectedEventTypes,
                       filterByRepo, autoScroll>>

C26_EmptyPayloadIgnored == [][EmptyPayloadIgnored]_vars

\* One delivery that appended nothing and took no number, with the repo
\* filter off.
C26_Witness ==
    /\ ~filterByRepo
    /\ now = 1
    /\ eventCounterRef = 0
    /\ events = <<>>

\* C27: a clearEvents step empties the buffer and the expansion set and leaves
\* the selected event types, the repo-filter flag, the auto-scroll flag and
\* the sequence counter as they were; a delivery, evicting or not, leaves
\* the expansion set as it was.
ClearedStep == events # <<>> /\ events' = <<>>

DeliveryStep == now' # now

ClearAndReceiveFrame ==
    /\ ClearedStep =>
          /\ expandedEvents' = {}
          /\ selectedEventTypes' = selectedEventTypes
          /\ filterByRepo' = filterByRepo
          /\ autoScroll' = autoScroll
          /\ eventCounterRef' = eventCounterRef
    /\ DeliveryStep => expandedEvents' = expandedEvents

C27_ClearAndReceiveFrame == [][ClearAndReceiveFrame]_vars

\* A full buffer after evictions whose expansion set still holds the sequence
\* number of an evicted entry.
C27_Witness ==
    /\ Len(events) = MAX_EVENTS
    /\ Len(appendedLog) > MAX_EVENTS
    /\ \E index \in expandedEvents :
          \A i \in 1..Len(events) : events[i].localIndex # index

\* C28: in every reachable state the sequence numbers of the buffered entries
\* are consecutive integers in buffer order and, when the buffer is not
\* empty, the last entry carries the number just before the counter's next
\* value.
C28_ConsecutiveNumbers ==
    /\ \A i \in 2..Len(events) :
          events[i].localIndex = events[i - 1].localIndex + 1
    /\ events # <<>> => events[Len(events)].localIndex = eventCounterRef - 1

\* A full buffer that has evicted entries, in a run where some delivery was
\* dropped by the repo filter and took no number.
C28_Witness ==
    /\ Len(events) = MAX_EVENTS
    /\ events[1].localIndex > 0
    /\ now > eventCounterRef

\* C29: a Resume click on a card sets the card's terminal-loading flag, and a
\* set flag always returns to false: after the open-terminal callback has
\* settled, by returning or by throwing, the timer clears it.
ResumeSetsFlag ==
    \A c \in 1..Len(sessions) :
        openTerminalCount(emitted', sessions[c].session.sessionId)
            > openTerminalCount(emitted, sessions[c].session.sessionId)
        => ~isTerminalLoading[c] /\ isTerminalLoading'[c]

C29_LoadingFlagClears ==
    /\ [][ResumeSetsFlag]_vars
    /\ \A c \in 1..MaxSessions : isTerminalLoading[c] ~> ~isTerminalLoading[c]

\* A card whose Resume click was sent to the host and whose flag is back to
\* false with no call or timer outstanding.
C29_Witness ==
    \E c \in 1..Len(sessions) :
        /\ openTerminalCount(emitted, sessions[c].session.sessionId) > 0
        /\ ~isTerminalLoading[c]
        /\ resumeCall[c] = "none"

\* C30: in every reachable state of the sessions panel the free-text query is
\* the empty string, and the displayed sessions are exactly the sessions the
\* status filter lets through, in snapshot order.
statusAlone(list, status) ==
    IF status = "all"
    THEN list
    ELSE SelectSeq(list, LAMBDA s : s.session.status = status)

C30_QueryStaysEmpty ==
    /\ searchQuery = <<>>
    /\ filteredSessions = statusAlone(sessions, statusFilter)

\* The status filter hides one session and shows another after the filter
\* was changed from its initial value.
C30_Witness ==
    /\ statusFilter = "idle"
    /\ filteredSessions # <<>>
    /\ Len(filteredSessions) < Len(sessions)

====
